---- MODULE Spec2Model ----
(***************************************************************************)
(* FC360 team app (src/app.py): the relational store (teams, users,        *)
(* matches, events), the remote transcoding provider (Mux) as seen through *)
(* its API, the admin upload handler, the reconciliation pass              *)
(* update_processing_matches and the timeline query of the main content.   *)
(*                                                                         *)
(* The store variables hold COMMITTED rows only.  Every browser session    *)
(* runs its handlers in its own script thread with its own SQLAlchemy      *)
(* session, so what a handler has read or changed but not yet committed    *)
(* lives in that session's local variables (ing, pass).                    *)
(***************************************************************************)
EXTENDS Integers, Sequences, FiniteSets, TLC

\* ------------------------------------------------------------------ bounds
MaxUploads == 2
MaxConcUploads == 1
MaxTeamUploads == 2
MaxUsers == 2
MaxAuthUploads == 1
MaxParseUploads == 1
MaxUrlUploads == 1
MaxLiveUploads == 1
MaxPlayerUploads == 2
MaxRaceUploads == 2

\* ------------------------------------------------------------- value sets
Sessions == {"s1", "s2"}
TeamNames == {"NYCFC"}
\* two names that differ in case only
CaseNames == {"NYCFC", "nycfc"}
Opponents == {"Inter Miami"}

\* Python None / SQL NULL for a string or identifier column
None == <<>>
\* SQL NULL for an integer foreign key
NULL == 0

\* Identifiers issued by the provider: opaque non-empty tokens, all distinct.
UploadId(u) == <<"upload", u>>
UploadUrl(u) == <<"url", u>>
AssetId(u) == <<"asset", u>>
PlaybackId(u, k) == <<"playback", u, k>>

\* ------------------------------------------------------ time-coded XML logs
\* An XML element holding a decimal number of seconds: present or not, its
\* text a number or not, the number in tenths of a second.
Absent == [present |-> FALSE, numeric |-> FALSE, tenths |-> 0]
Secs(t) == [present |-> TRUE, numeric |-> TRUE, tenths |-> t]
\* an element that is there but holds no number (<start/>, <start>n/a</start>)
NoNumber == [present |-> TRUE, numeric |-> FALSE, tenths |-> 0]

\* One <instance>: start, end, code (None when absent), label (None when absent)
Instance(s, e, c, l) == [start |-> s, end |-> e, code |-> c, label |-> l]

\* spec.md scenario 1: Goal 10.0-15.0 Smith, Foul 40.5-42.0 without a label
DocTwo ==
  [wellFormed |-> TRUE,
   instances |-> << Instance(Secs(100), Secs(150), <<"Goal">>, <<"Smith">>),
                    Instance(Secs(405), Secs(420), <<"Foul">>, None) >>]
\* a well-formed log without instances
DocEmpty == [wellFormed |-> TRUE, instances |-> <<>>]
\* bytes that are not an XML document
DocMalformed == [wellFormed |-> FALSE, instances |-> <<>>]

XmlDocs == {DocTwo, DocMalformed}

\* a log with a start inside a second (64.1 s, 64099 ms after conversion)
\* and a start before zero (-1.5 s)
DocSeek ==
  [wellFormed |-> TRUE,
   instances |-> << Instance(Secs(641), Secs(651), <<"Goal">>, None),
                    Instance(Secs(-15), Secs(20), <<"Foul">>, None) >>]

\* Instances a log can hold: timed ones (one with a time that is not exact
\* in binary), ones without a start or an end element, one that ends before
\* it starts, one that starts before zero, one whose start holds no number.
LogInstances ==
  { Instance(Secs(100), Secs(150), <<"Goal">>, <<"Smith">>),
    Instance(Secs(323), Secs(420), <<"Foul">>, None),
    Instance(Absent, Secs(150), <<"Goal">>, None),
    Instance(Secs(100), Absent, None, None),
    Instance(Secs(50), Secs(20), <<"Goal">>, None),
    Instance(Secs(-15), Secs(20), <<"Foul">>, None),
    Instance(NoNumber, Secs(20), <<"Goal">>, None) }

\* the well-formed logs of at most two of these instances, and a malformed one
LogDocs ==
  {DocEmpty, DocMalformed}
    \cup {[wellFormed |-> TRUE, instances |-> <<a>>] : a \in LogInstances}
    \cup {[wellFormed |-> TRUE, instances |-> <<a, b>>] : a, b \in LogInstances}

\* int(float(text) * 1000) for a text with one fractional digit: IEEE doubles
\* give d*100 except for the tenths below, where the product falls just short
\* of the integer and int() truncates (32.3 * 1000 = 32299.999999999996).
InexactTenths == {323, 641, 646, 651}
ToMs(t) == IF t \in InexactTenths THEN t * 100 - 1 ELSE t * 100

\* instance.find('start') and instance.find('end') both find an element
HasTimes(i) == i.start.present /\ i.end.present

\* float() raises on some instance that has both a start and an end
InstanceRaises(i) ==
  i.start.present /\ i.end.present /\ ~(i.start.numeric /\ i.end.numeric)

ParseRaises(doc) ==
  ~doc.wellFormed \/ \E k \in 1..Len(doc.instances) : InstanceRaises(doc.instances[k])

RECURSIVE ParseInstances(_)
\* the loop of parse_xml over root.findall('.//instance'), in document order
ParseInstances(insts) ==
  IF insts = <<>> THEN <<>>
  ELSE LET i == Head(insts)
       IN (IF i.start.present /\ i.end.present
           THEN << [tag |-> IF i.code # None THEN i.code[1] ELSE "Unknown",
                    player |-> IF i.label # None THEN i.label[1] ELSE "",
                    start_ms |-> ToMs(i.start.tenths),
                    end_ms |-> ToMs(i.end.tenths)] >>
           ELSE <<>>) \o ParseInstances(Tail(insts))

\* parse_xml: every exception is caught, reported with st.error, and the
\* result is then the empty list.
parse_xml(doc) == IF ParseRaises(doc) THEN <<>> ELSE ParseInstances(doc.instances)

\* ------------------------------------------------------------------- state
VARIABLES
  teams,    \* committed rows of 'teams': sequence of names, id = position
  users,    \* committed rows of 'users': sequence of [role, team_id]
  matches,  \* committed rows of 'matches', id = position
  events,   \* committed rows of 'events', id = position
  mux,      \* the provider: direct uploads and their assets, by upload number
  session,  \* st.session_state of each browser session
  pc,       \* where each session's running handler is
  ing,      \* locals of the upload handler of each session
  pass,     \* locals of update_processing_matches of each session
  out       \* messages the last handler run of each session displayed

store == <<teams, users, matches, events>>
vars == <<teams, users, matches, events, mux, session, pc, ing, pass, out>>

NoIngest == [team_in |-> "", opp |-> "", doc |-> DocEmpty, up |-> 0, team_id |-> NULL]
NoPass == [objs |-> <<>>, idx |-> 1, obs |-> <<>>, done |-> FALSE]

\* The store as create_all leaves it plus the one admin account, both
\* browser sessions logged in with it (Register, then Login in each).
Init ==
  /\ teams = <<>>
  /\ users = << [role |-> "admin", team_id |-> NULL] >>
  /\ matches = <<>>
  /\ events = <<>>
  /\ mux = <<>>
  /\ session = [s \in Sessions |-> [authenticated |-> TRUE, user_id |-> 1, role |-> "admin",
                                    active_video |-> None]]
  /\ pc = [s \in Sessions |-> "idle"]
  /\ ing = [s \in Sessions |-> NoIngest]
  /\ pass = [s \in Sessions |-> NoPass]
  /\ out = [s \in Sessions |-> {}]

\* The store as create_all leaves it, no account yet, and both browser
\* sessions as the first script run initialises st.session_state.
InitFresh ==
  /\ teams = <<>>
  /\ users = <<>>
  /\ matches = <<>>
  /\ events = <<>>
  /\ mux = <<>>
  /\ session = [s \in Sessions |-> [authenticated |-> FALSE, user_id |-> NULL, role |-> None,
                                    active_video |-> None]]
  /\ pc = [s \in Sessions |-> "idle"]
  /\ ing = [s \in Sessions |-> NoIngest]
  /\ pass = [s \in Sessions |-> NoPass]
  /\ out = [s \in Sessions |-> {}]

\* the admin sidebar is rendered only for an authenticated admin session
AdminUI(s) == session[s].authenticated /\ session[s].role = "admin"

\* --------------------------------------------------- the remote provider
NewUpload == [received |-> FALSE, asset_id |-> None, status |-> "none", playback_ids |-> <<>>]

\* The provider starts to process an upload whose bytes it has received.
MuxCreateAsset(u) ==
  /\ mux[u].received /\ mux[u].asset_id = None
  /\ mux' = [mux EXCEPT ![u].asset_id = AssetId(u), ![u].status = "preparing"]
  /\ UNCHANGED <<teams, users, matches, events, session, pc, ing, pass, out>>

\* Transcoding finishes; the asset may not have a playback id (yet).
MuxAssetReady(u, pids) ==
  /\ mux[u].status = "preparing"
  /\ mux' = [mux EXCEPT ![u].status = "ready", ![u].playback_ids = pids]
  /\ UNCHANGED <<teams, users, matches, events, session, pc, ing, pass, out>>

MuxAssetErrored(u) ==
  /\ mux[u].status = "preparing"
  /\ mux' = [mux EXCEPT ![u].status = "errored"]
  /\ UNCHANGED <<teams, users, matches, events, session, pc, ing, pass, out>>

\* A ready asset without playback ids gets them.
MuxAddPlayback(u) ==
  /\ mux[u].status = "ready" /\ mux[u].playback_ids = <<>>
  /\ mux' = [mux EXCEPT ![u].playback_ids = <<PlaybackId(u, 1), PlaybackId(u, 2)>>]
  /\ UNCHANGED <<teams, users, matches, events, session, pc, ing, pass, out>>

\* --------------------------------------------------- admin upload handler
\* "Start Admin Upload" with a field missing: only the warning.
IngestIncomplete(s) ==
  /\ AdminUI(s) /\ pc[s] = "idle"
  /\ out' = [out EXCEPT ![s] = {"All fields required."}]
  /\ UNCHANGED <<teams, users, matches, events, mux, session, pc, ing, pass>>

\* create_mux_upload raises inside its try: st.error, (None, None), and the
\* handler does nothing more.
IngestNoTarget(s) ==
  /\ AdminUI(s) /\ pc[s] = "idle"
  /\ out' = [out EXCEPT ![s] = {"Mux API Error"}]
  /\ UNCHANGED <<teams, users, matches, events, mux, session, pc, ing, pass>>

\* create_mux_upload returns the url and id of a new direct upload.
IngestTarget(s, team_in, opp, doc) ==
  /\ AdminUI(s) /\ pc[s] = "idle"
  /\ mux' = Append(mux, NewUpload)
  /\ ing' = [ing EXCEPT ![s] = [team_in |-> team_in, opp |-> opp, doc |-> doc,
                                 up |-> Len(mux) + 1, team_id |-> NULL]]
  /\ pc' = [pc EXCEPT ![s] = "put"]
  /\ out' = [out EXCEPT ![s] = {}]
  /\ UNCHANGED <<teams, users, matches, events, session, pass>>

\* requests.put answers 200: the provider has the bytes.
IngestTransferOk(s) ==
  /\ pc[s] = "put"
  /\ mux' = [mux EXCEPT ![ing[s].up].received = TRUE]
  /\ pc' = [pc EXCEPT ![s] = "team"]
  /\ UNCHANGED <<teams, users, matches, events, session, ing, pass, out>>

\* Variant: the status of the transfer response is not looked at
IngestTransferIgnored(s) ==
  /\ pc[s] = "put"
  /\ pc' = [pc EXCEPT ![s] = "team"]
  /\ UNCHANGED <<teams, users, matches, events, mux, session, ing, pass, out>>

\* requests.put answers another status (or raises): the handler ends.
IngestTransferFails(s) ==
  /\ pc[s] = "put"
  /\ pc' = [pc EXCEPT ![s] = "idle"]
  /\ ing' = [ing EXCEPT ![s] = NoIngest]
  /\ UNCHANGED <<teams, users, matches, events, mux, session, pass, out>>

\* Variant: the lookup compares names without regard to case
TeamByNameAnyCase(name) ==
  LET Fold(n) == IF n = "nycfc" THEN "NYCFC" ELSE n
  IN IF \E t \in 1..Len(teams) : Fold(teams[t]) = Fold(name)
     THEN CHOOSE t \in 1..Len(teams) : Fold(teams[t]) = Fold(name)
     ELSE NULL

\* db.query(Team).filter(Team.name == team_in).first(): NULL when there is none
TeamByName(name) ==
  IF \E t \in 1..Len(teams) : teams[t] = name
  THEN CHOOSE t \in 1..Len(teams) : teams[t] = name /\ \A t2 \in 1..(t - 1) : teams[t2] # name
  ELSE NULL

\* The handler looks the team up; a team it does not find it will insert.
IngestFindTeam(s) ==
  /\ pc[s] = "team"
  /\ ing' = [ing EXCEPT ![s].team_id = TeamByName(ing[s].team_in)]
  /\ pc' = [pc EXCEPT ![s] = "commit"]
  /\ UNCHANGED <<teams, users, matches, events, mux, session, pass, out>>

\* The rows of the new match's events, from the parsed log
EventRows(mid, drafts) ==
  [k \in 1..Len(drafts) |->
     [match_id |-> mid, tag |-> drafts[k].tag, player |-> drafts[k].player,
      start_ms |-> drafts[k].start_ms, end_ms |-> drafts[k].end_ms]]

\* The Match the handler creates
NewMatch(tid, opp, up_id) ==
  [team_id |-> tid, opponent |-> opp, mux_asset_id |-> up_id,
   mux_playback_id |-> None, status |-> "processing"]

\* Variant: the Match takes the team id known before the new Team is flushed
IngestCommitUnflushed(s) ==
  /\ pc[s] = "commit"
  /\ ~(ing[s].team_id = NULL /\ TeamByName(ing[s].team_in) # NULL)
  /\ teams' = IF ing[s].team_id = NULL THEN Append(teams, ing[s].team_in) ELSE teams
  /\ matches' = Append(matches, NewMatch(ing[s].team_id, ing[s].opp, UploadId(ing[s].up)))
  /\ events' = events \o EventRows(Len(matches) + 1, parse_xml(ing[s].doc))
  /\ out' = [out EXCEPT ![s] = (IF ParseRaises(ing[s].doc) THEN {"XML Error"} ELSE {})
                                \cup {"Success! Please wait 1-2 mins, then Sync."}]
  /\ pc' = [pc EXCEPT ![s] = "idle"]
  /\ ing' = [ing EXCEPT ![s] = NoIngest]
  /\ UNCHANGED <<users, mux, session, pass>>

\* Team (if new), Match and Event rows are added and committed together.
\* (The INSERT of a team whose name another transaction committed since the
\* lookup violates teams.name UNIQUE and raises instead.)
IngestCommit(s) ==
  /\ pc[s] = "commit"
  /\ ~(ing[s].team_id = NULL /\ TeamByName(ing[s].team_in) # NULL)
  /\ LET tid == IF ing[s].team_id = NULL THEN Len(teams) + 1 ELSE ing[s].team_id
         mid == Len(matches) + 1
     IN /\ teams' = IF ing[s].team_id = NULL THEN Append(teams, ing[s].team_in) ELSE teams
        /\ matches' = Append(matches, NewMatch(tid, ing[s].opp, UploadId(ing[s].up)))
        /\ events' = events \o EventRows(mid, parse_xml(ing[s].doc))
  /\ out' = [out EXCEPT ![s] = (IF ParseRaises(ing[s].doc) THEN {"XML Error"} ELSE {})
                                \cup {"Success! Please wait 1-2 mins, then Sync."}]
  /\ pc' = [pc EXCEPT ![s] = "idle"]
  /\ ing' = [ing EXCEPT ![s] = NoIngest]
  /\ UNCHANGED <<users, mux, session, pass>>

\* ------------------------------------------- update_processing_matches
\* Variant: the selection without the status filter
PendingAll(ms) == 1..Len(ms)

\* session.query(Match).filter(Match.status.in_(['processing', 'uploading']))
Pending(ms) == {m \in 1..Len(ms) : ms[m].status \in {"processing", "uploading"}}

\* the lifecycle columns of a match, as a session loads them
Lifecycle(m) ==
  [mux_asset_id |-> m.mux_asset_id, mux_playback_id |-> m.mux_playback_id,
   status |-> m.status]

RECURSIVE LoadObjects(_, _)
\* The objects .all() returns, in id order: what was loaded and the current
\* attribute values of the in-memory object.
LoadObjects(ms, from) ==
  IF from > Len(ms) THEN <<>>
  ELSE (IF from \in Pending(ms)
        THEN << [id |-> from, loaded |-> Lifecycle(ms[from]), cur |-> Lifecycle(ms[from])] >>
        ELSE <<>>) \o LoadObjects(ms, from + 1)

\* What get_direct_upload(id), and get_asset after it, can answer.
Resp(kind, a, st, pids) == [kind |-> kind, asset_id |-> a, status |-> st, playback_ids |-> pids]
UploadError == Resp("upload_error", None, "none", <<>>)
NoAsset == Resp("no_asset", None, "none", <<>>)
AssetError(a) == Resp("asset_error", a, "none", <<>>)

IsUploadId(id) == Len(id) = 2 /\ id[1] = "upload" /\ id[2] \in 1..Len(mux)

\* A call may always fail; an id that is not a direct upload's always does.
MuxResponses(id) ==
  {UploadError} \cup
  (IF ~IsUploadId(id) THEN {}
   ELSE LET up == mux[id[2]]
        IN IF up.asset_id = None THEN {NoAsset}
           ELSE {AssetError(up.asset_id),
                 Resp("asset", up.asset_id, up.status, up.playback_ids)})

\* Variant: status is assigned before the playback id is read
PollStatusFirst(cur, resp) ==
  IF resp.kind = "asset" /\ resp.status = "ready"
  THEN IF resp.playback_ids = <<>>
       THEN [cur EXCEPT !.mux_asset_id = resp.asset_id, !.status = "ready"]
       ELSE [mux_asset_id |-> resp.asset_id,
             mux_playback_id |-> resp.playback_ids[1],
             status |-> "ready"]
  ELSE cur

\* Variant: the last playback id of the asset instead of the first
PollLastPlayback(cur, resp) ==
  IF resp.kind = "asset" /\ resp.status = "ready"
  THEN IF resp.playback_ids = <<>>
       THEN [cur EXCEPT !.mux_asset_id = resp.asset_id]
       ELSE [mux_asset_id |-> resp.asset_id,
             mux_playback_id |-> resp.playback_ids[Len(resp.playback_ids)],
             status |-> "ready"]
  ELSE cur

\* The body of the for loop for one match: the attribute values after it.
\* An exception leaves the assignments made before it in place.
Poll(cur, resp) ==
  IF resp.kind = "asset" /\ resp.status = "ready"
  THEN IF resp.playback_ids = <<>>
       THEN [cur EXCEPT !.mux_asset_id = resp.asset_id]
       ELSE [mux_asset_id |-> resp.asset_id,
             mux_playback_id |-> resp.playback_ids[1],
             status |-> "ready"]
  ELSE cur

\* st.success("Linked: ... is READY") is reached
Linked(resp) == resp.kind = "asset" /\ resp.status = "ready" /\ resp.playback_ids # <<>>

\* "Sync Mux Status" with no pending match: the toast and nothing else.
SyncNothing(s) ==
  /\ AdminUI(s) /\ pc[s] = "idle"
  /\ Pending(matches) = {}
  /\ out' = [out EXCEPT ![s] = {"Everything is synced!"}]
  /\ pass' = [pass EXCEPT ![s] = NoPass]
  /\ UNCHANGED <<teams, users, matches, events, mux, session, pc, ing>>

\* "Sync Mux Status": the pass loads the pending matches.
SyncStart(s) ==
  /\ AdminUI(s) /\ pc[s] = "idle"
  /\ Pending(matches) # {}
  /\ pass' = [pass EXCEPT ![s] = [objs |-> LoadObjects(matches, 1), idx |-> 1,
                                   obs |-> <<>>, done |-> FALSE]]
  /\ pc' = [pc EXCEPT ![s] = "poll"]
  /\ out' = [out EXCEPT ![s] = {}]
  /\ UNCHANGED <<teams, users, matches, events, mux, session, ing>>

\* Variant: "except: break", a failed call ends the loop
SyncPollBreak(s, resp) ==
  /\ pc[s] = "poll"
  /\ pass[s].idx <= Len(pass[s].objs)
  /\ LET i == pass[s].idx
     IN /\ resp \in (IF pc[s] = "poll" /\ pass[s].idx <= Len(pass[s].objs)
                     THEN MuxResponses(pass[s].objs[pass[s].idx].cur.mux_asset_id) ELSE {})
        /\ pass' = [pass EXCEPT ![s].objs[i].cur = Poll(@, resp),
                                ![s].obs = Append(@, resp),
                                ![s].idx = IF resp.kind \in {"upload_error", "asset_error"}
                                           THEN Len(pass[s].objs) + 1 ELSE i + 1]
        /\ out' = [out EXCEPT ![s] = IF Linked(resp) THEN @ \cup {"Linked"} ELSE @]
  /\ UNCHANGED <<teams, users, matches, events, mux, session, pc, ing>>

\* The answers the provider can give to the next iteration of the loop
PollResponses(s) ==
  IF pc[s] = "poll" /\ pass[s].idx <= Len(pass[s].objs)
  THEN MuxResponses(pass[s].objs[pass[s].idx].cur.mux_asset_id)
  ELSE {}

\* One iteration of the loop: the remote calls for the next match.
SyncPoll(s, resp) ==
  /\ pc[s] = "poll"
  /\ pass[s].idx <= Len(pass[s].objs)
  /\ LET i == pass[s].idx
     IN /\ resp \in MuxResponses(pass[s].objs[i].cur.mux_asset_id)
        /\ pass' = [pass EXCEPT ![s].objs[i].cur = Poll(@, resp),
                                ![s].obs = Append(@, resp),
                                ![s].idx = i + 1]
        /\ out' = [out EXCEPT ![s] = IF Linked(resp) THEN @ \cup {"Linked"} ELSE @]
  /\ UNCHANGED <<teams, users, matches, events, mux, session, pc, ing>>

\* Variant: the UPDATE writes every column of the in-memory object
FlushWholeRow(ms, objs) ==
  [m \in 1..Len(ms) |->
     IF \E k \in 1..Len(objs) : objs[k].id = m
     THEN LET o == objs[CHOOSE k \in 1..Len(objs) : objs[k].id = m]
          IN [ms[m] EXCEPT !.mux_asset_id = o.cur.mux_asset_id,
                           !.mux_playback_id = o.cur.mux_playback_id,
                           !.status = o.cur.status]
     ELSE ms[m]]

\* Variant: status is written, the playback id is not
FlushStatusOnly(ms, objs) ==
  [m \in 1..Len(ms) |->
     IF \E k \in 1..Len(objs) : objs[k].id = m
     THEN LET o == objs[CHOOSE k \in 1..Len(objs) : objs[k].id = m]
          IN [ms[m] EXCEPT
                !.mux_asset_id = IF o.cur.mux_asset_id # o.loaded.mux_asset_id
                                 THEN o.cur.mux_asset_id ELSE @,
                !.status = IF o.cur.status # o.loaded.status THEN o.cur.status ELSE @]
     ELSE ms[m]]

\* session.commit(): one UPDATE per changed object, setting the attributes
\* whose value differs from the loaded one; all in one transaction.
Flush(ms, objs) ==
  [m \in 1..Len(ms) |->
     IF \E k \in 1..Len(objs) : objs[k].id = m
     THEN LET o == objs[CHOOSE k \in 1..Len(objs) : objs[k].id = m]
          IN [ms[m] EXCEPT
                !.mux_asset_id = IF o.cur.mux_asset_id # o.loaded.mux_asset_id
                                 THEN o.cur.mux_asset_id ELSE @,
                !.mux_playback_id = IF o.cur.mux_playback_id # o.loaded.mux_playback_id
                                    THEN o.cur.mux_playback_id ELSE @,
                !.status = IF o.cur.status # o.loaded.status THEN o.cur.status ELSE @]
     ELSE ms[m]]

\* After the loop: commit, close, rerun.  With keep, what the finished pass
\* had loaded and seen stays readable (history only, nothing reads it back).
SyncCommit(s, keep) ==
  /\ pc[s] = "poll"
  /\ pass[s].idx > Len(pass[s].objs)
  /\ matches' = Flush(matches, pass[s].objs)
  /\ pass' = [pass EXCEPT ![s] = IF keep THEN [@ EXCEPT !.done = TRUE] ELSE NoPass]
  /\ pc' = [pc EXCEPT ![s] = "idle"]
  /\ UNCHANGED <<teams, users, events, mux, session, ing, out>>

\* ------------------------------------------------ timeline (main content)
\* column == value as SQLAlchemy renders it: "IS NULL" for the value None,
\* "= value" otherwise (which no NULL column satisfies)
SqlEq(col, val) == IF val = NULL THEN col = NULL ELSE col # NULL /\ col = val

Url(playback_id, seek) == <<"https://stream.mux.com/", playback_id, "/low.mp4#t=", seek>>

\* Variant: a play URL for every row, whatever the match's status
TimelineAnyStatus(u, sel_tag) ==
  { [kind |-> "clip", event |-> e,
     url |-> Url(matches[events[e].match_id].mux_playback_id,
                 events[e].start_ms \div 1000)]
    : e \in { e \in 1..Len(events) :
                /\ events[e].tag = sel_tag
                /\ (u.role # "admin" => SqlEq(matches[events[e].match_id].team_id, u.team_id)) } }

\* Variant: the query without the team filter
TimelineAllTeams(u, sel_tag) ==
  { IF matches[events[e].match_id].status = "ready"
    THEN [kind |-> "clip", event |-> e,
          url |-> Url(matches[events[e].match_id].mux_playback_id,
                      events[e].start_ms \div 1000)]
    ELSE [kind |-> "pending", event |-> e, url |-> None]
    : e \in { e \in 1..Len(events) : events[e].tag = sel_tag } }

\* The rows of query.all() for user u and tag sel_tag, each as what the
\* page renders for it: a clip with its play URL, or the pending caption.
Timeline(u, sel_tag) ==
  { IF matches[events[e].match_id].status = "ready"
    THEN [kind |-> "clip", event |-> e,
          url |-> Url(matches[events[e].match_id].mux_playback_id,
                      events[e].start_ms \div 1000)]
    ELSE [kind |-> "pending", event |-> e, url |-> None]
    : e \in { e \in 1..Len(events) :
                /\ events[e].tag = sel_tag
                /\ (u.role # "admin" => SqlEq(matches[events[e].match_id].team_id, u.team_id)) } }

\* Variant: only tags of 'ready' matches are listed
ListTagsReady(u) ==
  { events[e].tag : e \in { e \in 1..Len(events) :
      /\ matches[events[e].match_id].status = "ready"
      /\ (u.role # "admin" => SqlEq(matches[events[e].match_id].team_id, u.team_id)) } }

\* db.query(Event.tag)[.join(Match).filter(Match.team_id == u.team_id)]
\* .distinct(): the entries of tag_list
ListTags(u) ==
  { events[e].tag : e \in { e \in 1..Len(events) :
      u.role # "admin" => SqlEq(matches[events[e].match_id].team_id, u.team_id) } }

\* The play button of a clip of the timeline shown for tag sel_tag
SelectClip(s, sel_tag, item) ==
  /\ session[s].authenticated /\ pc[s] = "idle"
  /\ LET u == users[session[s].user_id]
     IN /\ sel_tag \in ListTags(u)
        /\ item \in Timeline(u, sel_tag)
  /\ item.kind = "clip"
  /\ session' = [session EXCEPT ![s].active_video = item.url]
  /\ UNCHANGED <<teams, users, matches, events, mux, pc, ing, pass, out>>

\* what st.video plays for session s: the player is in the "if sel_tag:"
\* block, so it takes a tag to select and a stored selection
PlayerShows(s) ==
  IF /\ session[s].authenticated
     /\ ListTags(users[session[s].user_id]) # {}
     /\ session[s].active_video # None
  THEN session[s].active_video
  ELSE None

\* ------------------------------------------------ login and registration
\* "Create Account": anyone not logged in, with the role picked in the form
\* (a failed creation changes nothing)
Register(s, role) ==
  /\ ~session[s].authenticated /\ pc[s] = "idle"
  /\ users' = Append(users, [role |-> role, team_id |-> NULL])
  /\ UNCHANGED <<teams, matches, events, mux, session, pc, ing, pass, out>>

\* Variant: the role kept from the session's previous login
LoginKeepsRole(s, uid) ==
  /\ ~session[s].authenticated /\ pc[s] = "idle"
  /\ uid \in 1..Len(users)
  /\ session' = [session EXCEPT ![s].authenticated = TRUE, ![s].user_id = uid,
                                ![s].role = IF session[s].user_id = NULL
                                            THEN users[uid].role ELSE @]
  /\ UNCHANGED <<teams, users, matches, events, mux, pc, ing, pass, out>>

\* "Login" with the credentials of user uid (invalid ones change nothing)
Login(s, uid) ==
  /\ ~session[s].authenticated /\ pc[s] = "idle"
  /\ uid \in 1..Len(users)
  /\ session' = [session EXCEPT ![s].authenticated = TRUE, ![s].user_id = uid,
                                ![s].role = users[uid].role]
  /\ UNCHANGED <<teams, users, matches, events, mux, pc, ing, pass, out>>

\* "Logout"
Logout(s) ==
  /\ session[s].authenticated /\ pc[s] = "idle"
  /\ session' = [session EXCEPT ![s].authenticated = FALSE]
  /\ UNCHANGED <<teams, users, matches, events, mux, pc, ing, pass, out>>

\* "Apply" in the Users tab: user uid (role 'user') is assigned to team t
AssignTeam(s, uid, t) ==
  /\ AdminUI(s) /\ pc[s] = "idle"
  /\ uid \in 1..Len(users) /\ users[uid].role = "user"
  /\ t \in 1..Len(teams)
  /\ users' = [users EXCEPT ![uid].team_id = t]
  /\ UNCHANGED <<teams, matches, events, mux, session, pc, ing, pass, out>>

\* ----------------------------------------- concurrent upload handlers
\* The INSERT of the team violates teams.name UNIQUE: another transaction
\* committed the name after this handler's lookup.  IntegrityError leaves
\* the script run; the session's transaction is never committed.
IngestTeamConflict(s) ==
  /\ pc[s] = "commit"
  /\ ing[s].team_id = NULL /\ TeamByName(ing[s].team_in) # NULL
  /\ out' = [out EXCEPT ![s] = {"IntegrityError"}]
  /\ pc' = [pc EXCEPT ![s] = "idle"]
  /\ ing' = [ing EXCEPT ![s] = NoIngest]
  /\ UNCHANGED <<teams, users, matches, events, mux, session, pass>>

\* ------------------------------------------------------------ specification
MuxStep ==
  \/ \E u \in 1..Len(mux) : MuxCreateAsset(u)
  \/ \E u \in 1..Len(mux) :
       \E pids \in {<<>>, <<PlaybackId(u, 1), PlaybackId(u, 2)>>} : MuxAssetReady(u, pids)
  \/ \E u \in 1..Len(mux) : MuxAssetErrored(u)
  \/ \E u \in 1..Len(mux) : MuxAddPlayback(u)

\* the upload handler run by a session of S, at most cap direct uploads
IngestStep(S, names, docs, cap) ==
  \/ \E s \in S : IngestIncomplete(s)
  \/ \E s \in S : IngestNoTarget(s)
  \/ \E s \in S, team_in \in names, opp \in Opponents, doc \in docs :
       Len(mux) < cap /\ IngestTarget(s, team_in, opp, doc)
  \/ \E s \in S : IngestTransferOk(s)
  \/ \E s \in S : IngestTransferFails(s)
  \/ \E s \in S : IngestFindTeam(s)
  \/ \E s \in S : IngestCommit(s)

\* reconciliation passes run by the sessions of S
SyncStep(S, keep) ==
  \/ \E s \in S : SyncNothing(s)
  \/ \E s \in S : SyncStart(s)
  \/ \E s \in S : \E resp \in PollResponses(s) : SyncPoll(s, resp)
  \/ \E s \in S : SyncCommit(s, keep)

\* One admin at work: uploads and reconciliation passes one after another,
\* the provider progressing in between.
Next ==
  \/ MuxStep
  \/ IngestStep({"s1"}, TeamNames, XmlDocs, MaxUploads)
  \/ SyncStep({"s1"}, FALSE)

Spec == Init /\ [][Next]_vars

\* Two admins: one uploads, both run reconciliation passes concurrently; a
\* finished pass stays on record until the session starts the next one.
NextSync2 ==
  \/ MuxStep
  \/ IngestStep({"s1"}, TeamNames, {DocTwo}, MaxConcUploads)
  \/ SyncStep(Sessions, TRUE)

SpecSync2 == Init /\ [][NextSync2]_vars

\* One admin uploads matches of teams whose names differ in case only, and
\* reconciles.
NextTeams ==
  \/ MuxStep
  \/ IngestStep({"s1"}, CaseNames, {DocTwo}, MaxTeamUploads)
  \/ SyncStep({"s1"}, FALSE)

SpecTeams == Init /\ [][NextTeams]_vars

\* the login page used by the sessions of S, at most cap accounts
AuthStep(S, cap) ==
  \/ \E s \in S, role \in {"user", "admin"} : Len(users) < cap /\ Register(s, role)
  \/ \E s \in S, uid \in 1..Len(users) : Login(s, uid)
  \/ \E s \in S : Logout(s)

\* the Users tab of the admin sidebar
AssignStep(S) ==
  \E s \in S, uid \in 1..Len(users), t \in 1..Len(teams) : AssignTeam(s, uid, t)

\* One browser session from its first run on: accounts are created, users
\* and admins log in and out of it in turn, and whoever is logged in uses
\* what the page offers.
NextAuth ==
  \/ AuthStep({"s1"}, MaxUsers)
  \/ AssignStep({"s1"})
  \/ MuxStep
  \/ IngestStep({"s1"}, TeamNames, {DocTwo}, MaxAuthUploads)
  \/ SyncStep({"s1"}, FALSE)

SpecAuth == InitFresh /\ [][NextAuth]_vars

\* One admin uploads logs of every kind: parse_xml applied to each of them
\* by the upload handler.
NextParse == IngestStep({"s1"}, TeamNames, LogDocs, MaxParseUploads)

SpecParse == Init /\ [][NextParse]_vars

\* One admin uploads a match and reconciles until its clips can be played.
NextUrl ==
  \/ MuxStep
  \/ IngestStep({"s1"}, TeamNames, {DocTwo, DocSeek}, MaxUrlUploads)
  \/ SyncStep({"s1"}, FALSE)

SpecUrl == Init /\ [][NextUrl]_vars

\* the loop of the pass of session s gets an answer (no call raises) for
\* match m
PollAnswered(s, m) ==
  \E resp \in PollResponses(s) :
    /\ resp.kind \notin {"upload_error", "asset_error"}
    /\ pass[s].objs[pass[s].idx].id = m
    /\ SyncPoll(s, resp)

\* One admin uploads and reconciles.  A handler that runs comes to its end;
\* "Sync Mux Status" is pressed again and again while a match is pending;
\* the calls for a match that can be answered are not failing for ever.
NextLive ==
  \/ MuxStep
  \/ IngestStep({"s1"}, TeamNames, XmlDocs, MaxLiveUploads)
  \/ SyncStep({"s1"}, FALSE)

FairLive ==
  /\ WF_vars(IngestTransferOk("s1") \/ IngestTransferFails("s1"))
  /\ WF_vars(IngestFindTeam("s1"))
  /\ WF_vars(IngestCommit("s1"))
  /\ WF_vars(SyncStart("s1"))
  /\ WF_vars(\E resp \in PollResponses("s1") : SyncPoll("s1", resp))
  /\ WF_vars(SyncCommit("s1", FALSE))
  /\ \A m \in 1..MaxLiveUploads : SF_vars(PollAnswered("s1", m))

SpecLive == Init /\ [][NextLive]_vars /\ FairLive

\* the play buttons of the timelines shown to the sessions of S
SelectStep(S) ==
  \E s \in S :
    /\ session[s].authenticated
    /\ \E sel_tag \in {"Goal", "Foul", "Unknown"} :
         \E item \in Timeline(users[session[s].user_id], sel_tag) : SelectClip(s, sel_tag, item)

\* An admin (session s1) uploads matches of two teams, reconciles and
\* assigns users to teams; the other browser session is logged out of, an
\* account is created and logged in with, and clips are played in it.
NextPlayer ==
  \/ MuxStep
  \/ IngestStep({"s1"}, CaseNames, {DocTwo}, MaxPlayerUploads)
  \/ SyncStep({"s1"}, FALSE)
  \/ AssignStep({"s1"})
  \/ AuthStep({"s2"}, MaxUsers)
  \/ SelectStep({"s2"})

SpecPlayer == Init /\ [][NextPlayer]_vars

\* Two admins upload matches of the same team at the same time.
NextIngest2 ==
  \/ IngestStep(Sessions, TeamNames, {DocTwo}, MaxRaceUploads)
  \/ \E s \in Sessions : IngestTeamConflict(s)

SpecIngest2 == Init /\ [][NextIngest2]_vars

\* ------------------------------------------------------------- properties
MatchIds == 1..Len(matches)
Tags == {"Goal", "Foul", "Unknown"}
\* every caller the timeline can be computed for: the admin, and a 'user'
\* of each team or of none
Callers ==
  {[role |-> "admin", team_id |-> NULL]} \cup
  {[role |-> "user", team_id |-> t] : t \in 0..Len(teams)}

\* the provider outcome the reconciliation engine may act on
Actionable(resp) ==
  resp.kind = "asset" /\ resp.status = "ready" /\ resp.playback_ids # <<>>
\* a remote call raised
CallFailed(resp) == resp.kind \in {"upload_error", "asset_error"}
\* the step in which session s commits its pass
Committing(s) == \E keep \in BOOLEAN : SyncCommit(s, keep)

\* C1: in every committed state every Match has a non-empty mux_playback_id
\* if and only if its status is 'ready'.
C1_PlaybackIffReady ==
  \A m \in MatchIds : (matches[m].mux_playback_id # None) <=> (matches[m].status = "ready")

C1_Witness ==
  \E m, n \in MatchIds :
    /\ matches[m].status = "ready" /\ matches[m].mux_playback_id # None
    /\ matches[n].status = "processing"

\* C2: for every caller and tag, the timeline gives a play URL only for
\* events of a 'ready' match; an event of a pending match gives the
\* placeholder, which carries no URL.
C2_UrlOnlyWhenReady ==
  \A u \in Callers, tag \in Tags : \A item \in Timeline(u, tag) :
    LET st == matches[events[item.event].match_id].status
    IN /\ item.kind = "clip" => st = "ready"
       /\ st \in {"uploading", "processing"} => item.kind = "pending" /\ item.url = None

C2_Witness ==
  \E u \in Callers : \E a, b \in Timeline(u, "Goal") :
    a.kind = "clip" /\ b.kind = "pending"

\* C3 (as claimed): a pass changes mux_asset_id, mux_playback_id and status
\* of a match only on an actionable outcome; after any other outcome the
\* committed row has the three fields it had.
C3_OnlyActionableChanges ==
  [][\A s \in Sessions : Committing(s) =>
       \A k \in 1..Len(pass[s].objs) :
         ~Actionable(pass[s].obs[k]) =>
           Lifecycle(matches'[pass[s].objs[k].id]) = Lifecycle(matches[pass[s].objs[k].id])]_vars

\* C4: with two concurrent passes no committed state shows a 'ready' match
\* whose playback id is empty or not the first playback id of its asset, a
\* commit never takes 'ready' away, and once both passes have committed, a
\* match both had loaded in the same state is in the state one of them
\* alone would have produced.
C4_ReadyIsFresh ==
  \A m \in MatchIds : matches[m].status = "ready" =>
    \E u \in 1..Len(mux) :
      /\ matches[m].mux_asset_id = AssetId(u) /\ mux[u].asset_id = AssetId(u)
      /\ mux[u].playback_ids # <<>>
      /\ matches[m].mux_playback_id = mux[u].playback_ids[1]

C4_FinalAsSinglePass ==
  (\A s \in Sessions : pass[s].done) =>
    \A k1 \in 1..Len(pass["s1"].objs), k2 \in 1..Len(pass["s2"].objs) :
      LET o1 == pass["s1"].objs[k1]
          o2 == pass["s2"].objs[k2]
      IN (o1.id = o2.id /\ o1.loaded = o2.loaded) =>
           /\ Lifecycle(matches[o1.id]) \in
                {Poll(o1.loaded, pass["s1"].obs[k1]), Poll(o2.loaded, pass["s2"].obs[k2])}
           /\ (Actionable(pass["s1"].obs[k1]) \/ Actionable(pass["s2"].obs[k2]))
                => matches[o1.id].status = "ready"

C4_ConcurrentPasses == C4_ReadyIsFresh /\ C4_FinalAsSinglePass

\* both passes loaded match 1 while it was pending, both saw it ready
C4_Witness ==
  /\ \A s \in Sessions :
       /\ pass[s].done /\ Len(pass[s].objs) >= 1
       /\ pass[s].objs[1].id = 1 /\ pass[s].objs[1].loaded.status = "processing"
       /\ Actionable(pass[s].obs[1])
  /\ Len(matches) >= 1 /\ matches[1].status = "ready"

\* C5 (as claimed): an ingestion whose log cannot be parsed commits no Match
\* and no Event row.
C5_MalformedCommitsNothing ==
  [][\A s \in Sessions : (IngestCommit(s) /\ ParseRaises(ing[s].doc)) =>
       (matches' = matches /\ events' = events)]_vars

\* C6: an ingestion without an upload target or without a confirmed
\* transfer leaves Team, Match and Event rows as they were: the handler
\* gets to the team lookup only with the bytes received, so every Match is
\* backed by a received upload of its own and teams exist only with matches.
C6_StoreNeedsTransfer ==
  /\ \A s \in Sessions : pc[s] \in {"team", "commit"} => mux[ing[s].up].received
  /\ \A m \in MatchIds : \E u \in 1..Len(mux) :
       mux[u].received /\ matches[m].mux_asset_id \in {UploadId(u), AssetId(u)}
  /\ Len(matches) <= Cardinality({u \in 1..Len(mux) : mux[u].received})
  /\ Len(teams) <= Len(matches)
  /\ \A e \in 1..Len(events) : events[e].match_id \in MatchIds

C6_AbortLeavesStore ==
  [][\A s \in Sessions : (IngestNoTarget(s) \/ IngestTransferFails(s)) =>
       UNCHANGED <<teams, matches, events>>]_vars

C6_NothingPersisted == []C6_StoreNeedsTransfer /\ C6_AbortLeavesStore

\* a transfer failed and a target request failed: the store is still empty
C6_Witness ==
  /\ Len(mux) = 1 /\ ~mux[1].received /\ pc["s1"] = "idle"
  /\ out["s1"] = {"Mux API Error"}
  /\ teams = <<>> /\ matches = <<>> /\ events = <<>>

\* C7: a Match's status only moves forward: 'ready' stays 'ready', and
\* 'processing' never becomes 'uploading'.
C7_StatusMonotonic ==
  [][\A m \in MatchIds :
       /\ matches[m].status = "ready" => matches'[m].status = "ready"
       /\ matches[m].status = "processing" => matches'[m].status # "uploading"]_vars

\* a pass that loaded match 1 while pending, and saw nothing actionable,
\* has committed after another pass made the match ready
C7_Witness ==
  /\ Len(matches) >= 1 /\ matches[1].status = "ready"
  /\ \E s \in Sessions :
       /\ pass[s].done /\ Len(pass[s].objs) >= 1 /\ pass[s].objs[1].id = 1
       /\ pass[s].objs[1].cur.status = "processing"

\* reconciliation of the whole store against the provider as it is now,
\* every remote call answering
Answer(id) ==
  IF ~IsUploadId(id) THEN UploadError
  ELSE IF mux[id[2]].asset_id = None THEN NoAsset
       ELSE Resp("asset", mux[id[2]].asset_id, mux[id[2]].status, mux[id[2]].playback_ids)

ReconcileAll(ms) ==
  LET objs == LoadObjects(ms, 1)
  IN Flush(ms, [k \in 1..Len(objs) |->
                  [objs[k] EXCEPT !.cur = Poll(@, Answer(@.mux_asset_id))]])

\* C8: a pass started when every Match is 'ready' (or there is none) does
\* not get to a remote call or a write and leaves store and provider as
\* they are; and against an unchanged provider a second pass changes
\* nothing the first has not.
C8_NoPendingNoOp ==
  [][\A s \in Sessions :
       ((SyncNothing(s) \/ SyncStart(s)) /\ \A m \in MatchIds : matches[m].status = "ready")
         => /\ UNCHANGED <<teams, users, matches, events, mux>>
            /\ pc'[s] = "idle"
            /\ pass'[s].objs = <<>> /\ pass'[s].obs = <<>>]_vars

C8_Idempotent == ReconcileAll(ReconcileAll(matches)) = ReconcileAll(matches)

C8_ReadySetNoOp == []C8_Idempotent /\ C8_NoPendingNoOp

C8_Witness ==
  /\ Len(matches) = 2 /\ \A m \in MatchIds : matches[m].status = "ready"
  /\ out["s1"] = {"Everything is synced!"} /\ pass["s1"] = NoPass

\* C9: in a pass, a match whose remote call failed keeps its fields, every
\* match of the pass is polled all the same, and each one the provider
\* reports ready (with a playback id) is committed 'ready' by that pass.
C9_FailureIsPerMatch ==
  [][\A s \in Sessions : Committing(s) =>
       /\ Len(pass[s].obs) = Len(pass[s].objs)
       /\ \A k \in 1..Len(pass[s].objs) :
            LET id == pass[s].objs[k].id
                r == pass[s].obs[k]
            IN /\ CallFailed(r) => Lifecycle(matches'[id]) = Lifecycle(matches[id])
               /\ Actionable(r) =>
                    Lifecycle(matches'[id]) =
                      [mux_asset_id |-> r.asset_id,
                       mux_playback_id |-> r.playback_ids[1], status |-> "ready"]]_vars

\* one pass: the call for match 1 failed, match 2 was still polled and found
\* ready; the pass is about to commit
C9_Witness ==
  /\ pc["s1"] = "poll" /\ Len(pass["s1"].objs) = 2 /\ pass["s1"].idx = 3
  /\ CallFailed(pass["s1"].obs[1]) /\ Actionable(pass["s1"].obs[2])
  /\ pass["s1"].objs[1].cur = pass["s1"].objs[1].loaded
  /\ pass["s1"].objs[2].cur.status = "ready"

\* C10: when a pass that found asset a ready with first playback id p for a
\* match commits, the match has mux_asset_id = a, mux_playback_id = p, status
\* 'ready', and the timeline of a caller who may see it, for the tag of any
\* of its events, then has that event with the URL of p and the start second.
C10_ReadyThenPlayable ==
  [][\A s \in Sessions : Committing(s) =>
       \A k \in 1..Len(pass[s].objs) :
         LET id == pass[s].objs[k].id
             r == pass[s].obs[k]
         IN Actionable(r) =>
              /\ Lifecycle(matches'[id]) =
                   [mux_asset_id |-> r.asset_id,
                    mux_playback_id |-> r.playback_ids[1], status |-> "ready"]
              /\ \A e \in 1..Len(events) : events[e].match_id = id =>
                   \A u \in {[role |-> "admin", team_id |-> NULL],
                             [role |-> "user", team_id |-> matches[id].team_id]} :
                     [kind |-> "clip", event |-> e,
                      url |-> Url(r.playback_ids[1], events[e].start_ms \div 1000)]
                       \in Timeline(u, events[e].tag)']_vars

\* scenario 3 of spec.md: after the pass that linked match 1, the Goal at
\* 10.0 s plays from #t=10
C10_Witness ==
  /\ pc["s1"] = "idle" /\ out["s1"] = {"Linked"}
  /\ Len(matches) >= 1 /\ matches[1].status = "ready"
  /\ \E item \in Timeline([role |-> "user", team_id |-> 1], "Goal") :
       /\ events[item.event].match_id = 1
       /\ item.url = Url(matches[1].mux_playback_id, 10)

\* C11: for every 'user'-role caller and tag, every row of the timeline
\* (clip or pending placeholder) is an event of a match of the caller's team;
\* a caller without a team gets no row.
C11_OwnTeamOnly ==
  \A u \in Callers : u.role = "user" =>
    \A tag \in Tags :
      /\ \A item \in Timeline(u, tag) :
           /\ u.team_id # NULL
           /\ matches[events[item.event].match_id].team_id = u.team_id
      /\ u.team_id = NULL => Timeline(u, tag) = {}

\* Goal is a tag of a ready match of team 1 and of a pending match of team 2:
\* the user of team 1 gets the one, and the admin both
C11_Witness ==
  /\ Len(teams) = 2
  /\ \E a, b \in Timeline([role |-> "admin", team_id |-> NULL], "Goal") :
       /\ a.kind = "clip" /\ matches[events[a.event].match_id].team_id = 1
       /\ b.kind = "pending" /\ matches[events[b.event].match_id].team_id = 2
  /\ Cardinality(Timeline([role |-> "user", team_id |-> 1], "Goal")) = 1

\* the account session s is logged in with is of role r
LoggedInAs(s, r) ==
  /\ session[s].authenticated
  /\ session[s].user_id \in 1..Len(users)
  /\ users[session[s].user_id].role = r

\* a step with an effect of ingestion, reconciliation or team assignment:
\* rows of teams, matches or events written, a user's team changed, a direct
\* upload created or fed, the provider polled (anything but registration
\* and the provider's own progress)
AdminEffect ==
  \/ teams' # teams \/ matches' # matches \/ events' # events
  \/ (Len(users') = Len(users) /\ users' # users)
  \/ Len(mux') # Len(mux)
  \/ \E u \in 1..Len(mux) : mux'[u].received # mux[u].received
  \/ pass' # pass \/ ing' # ing \/ pc' # pc

\* C12: the admin operations are offered, and running, only in a session
\* logged in with an 'admin' account, never in one logged in with a 'user'
\* account, whoever was logged in in that session before; and every step
\* with an effect of these operations is taken by a session logged in with
\* an 'admin' account.
C12_OfferedToAdminOnly ==
  \A s \in Sessions :
    /\ (AdminUI(s) \/ pc[s] # "idle") => LoggedInAs(s, "admin")
    /\ LoggedInAs(s, "user") => (~AdminUI(s) /\ pc[s] = "idle")

C12_EffectsByAdminOnly ==
  [][AdminEffect => \E s \in Sessions : LoggedInAs(s, "admin") /\ AdminUI(s)]_vars

C12_AdminOnly == []C12_OfferedToAdminOnly /\ C12_EffectsByAdminOnly

\* a 'user' account is logged in in the session in which an admin uploaded
\* a match and assigned that user to its team
C12_Witness ==
  /\ LoggedInAs("s1", "user") /\ session["s1"].role = "user"
  /\ Len(matches) = 1
  /\ users[session["s1"].user_id].team_id = 1

\* C13: the commit of an ingestion whose transfer was confirmed and whose
\* log parsed adds exactly one Match: 'processing', mux_asset_id the upload
\* id, no playback id, of the team with exactly the given name (the existing
\* one, else one new Team), and exactly one Event per log instance with a
\* start and an end, in document order, attached to that Match.
C13_IngestionCommits ==
  [][\A s \in Sessions : (IngestCommit(s) /\ ~ParseRaises(ing[s].doc)) =>
       LET inst == SelectSeq(ing[s].doc.instances, HasTimes)
           mid == Len(matches) + 1
           old == Len(events)
       IN /\ mux[ing[s].up].received
          /\ Len(matches') = mid /\ SubSeq(matches', 1, Len(matches)) = matches
          /\ matches'[mid].status = "processing"
          /\ matches'[mid].mux_asset_id = UploadId(ing[s].up)
          /\ matches'[mid].mux_playback_id = None
          /\ matches'[mid].opponent = ing[s].opp
          /\ matches'[mid].team_id \in 1..Len(teams')
          /\ teams'[matches'[mid].team_id] = ing[s].team_in
          /\ IF \E t \in 1..Len(teams) : teams[t] = ing[s].team_in
             THEN teams' = teams
             ELSE teams' = Append(teams, ing[s].team_in)
          /\ \A t1, t2 \in 1..Len(teams') : teams'[t1] = teams'[t2] => t1 = t2
          /\ Len(events') = old + Len(inst) /\ SubSeq(events', 1, old) = events
          /\ \A k \in 1..Len(inst) :
               events'[old + k] =
                 [match_id |-> mid,
                  tag |-> IF inst[k].code # None THEN inst[k].code[1] ELSE "Unknown",
                  player |-> IF inst[k].label # None THEN inst[k].label[1] ELSE "",
                  start_ms |-> ToMs(inst[k].start.tenths),
                  end_ms |-> ToMs(inst[k].end.tenths)]]_vars

\* scenario 1 of spec.md, then a match of "nycfc" (a new team) and so the
\* two events of each match
C13_Witness ==
  /\ teams = <<"NYCFC", "nycfc">> /\ Len(matches) = 2 /\ Len(events) = 4
  /\ matches[1] = [team_id |-> 1, opponent |-> "Inter Miami", mux_asset_id |-> UploadId(1),
                   mux_playback_id |-> None, status |-> "processing"]
  /\ matches[2].team_id = 2
  /\ events[1] = [match_id |-> 1, tag |-> "Goal", player |-> "Smith",
                  start_ms |-> 10000, end_ms |-> 15000]
  /\ events[2] = [match_id |-> 1, tag |-> "Foul", player |-> "",
                  start_ms |-> 40500, end_ms |-> 42000]
  /\ events[3].match_id = 2 /\ events[4].match_id = 2

\* C14 (as claimed): every persisted Event has start_ms >= 0 and
\* end_ms >= start_ms; and of a well-formed log exactly the instances that
\* have a start and an end time produce an event, whatever the other
\* instances of the document lack.
C14_TimesInOrder ==
  \A e \in 1..Len(events) : events[e].start_ms >= 0 /\ events[e].end_ms >= events[e].start_ms

C14_UntimedDropped ==
  [][\A s \in Sessions : (IngestCommit(s) /\ ing[s].doc.wellFormed) =>
       LET Timed(i) == HasTimes(i) /\ i.start.numeric /\ i.end.numeric
       IN Len(events') - Len(events) = Len(SelectSeq(ing[s].doc.instances, Timed))]_vars

C14_ParsedEventsValid == []C14_TimesInOrder /\ C14_UntimedDropped

\* C15: the tag list of a 'user'-role caller is exactly the set of tags of
\* the events of matches of the caller's team, that of an 'admin' the set of
\* all event tags; the matches' status plays no part.
C15_TagListing ==
  \A u \in Callers :
    ListTags(u) =
      IF u.role = "admin"
      THEN { events[e].tag : e \in 1..Len(events) }
      ELSE { events[e].tag : e \in { e \in 1..Len(events) :
               /\ u.team_id # NULL
               /\ \E m \in MatchIds : m = events[e].match_id /\ matches[m].team_id = u.team_id } }

\* the only match of team 2 is still processing, that of team 1 is ready:
\* the user of team 2 is offered its tags, a user of no team none
C15_Witness ==
  /\ Len(teams) = 2 /\ Len(matches) = 2
  /\ matches[1].team_id = 1 /\ matches[1].status = "ready"
  /\ matches[2].team_id = 2 /\ matches[2].status = "processing"
  /\ ListTags([role |-> "user", team_id |-> 2]) = {"Goal", "Foul"}
  /\ ListTags([role |-> "user", team_id |-> NULL]) = {}

\* C16 (as claimed): the URL of every clip of the timeline is
\* https://stream.mux.com/<mux_playback_id>/low.mp4#t=<s> with s the whole
\* seconds of start_ms, rounded down, a non-negative integer; and an event
\* has one URL.
C16_SeekUrl ==
  \A u \in Callers, tag \in Tags :
    \A item \in Timeline(u, tag) : item.kind = "clip" =>
      LET ev == events[item.event]
          sec == item.url[4]
      IN /\ Len(item.url) = 4
         /\ item.url[1] = "https://stream.mux.com/"
         /\ item.url[2] = matches[ev.match_id].mux_playback_id
         /\ item.url[3] = "/low.mp4#t="
         /\ sec * 1000 <= ev.start_ms /\ ev.start_ms < (sec + 1) * 1000
         /\ sec \in Nat
         /\ \A other \in Timeline(u, tag) : other.event = item.event => other = item

\* match m is pending and the provider has its upload's asset ready with a
\* playback id (which the provider then keeps reporting)
ProviderReady(m) ==
  /\ m \in MatchIds /\ matches[m].status \in {"processing", "uploading"}
  /\ \E u \in 1..Len(mux) :
       /\ mux[u].received /\ mux[u].asset_id = AssetId(u)
       /\ matches[m].mux_asset_id \in {UploadId(u), AssetId(u)}
       /\ mux[u].status = "ready" /\ mux[u].playback_ids # <<>>

\* C17 (as claimed): with passes invoked again and again, a pending match
\* whose asset the provider reports ready with a playback id becomes
\* 'ready', whatever earlier passes have observed for it.
C17_EventuallyReady ==
  \A m \in 1..MaxLiveUploads :
    ProviderReady(m) ~> (m \in MatchIds /\ matches[m].status = "ready")

\* C18 (as claimed): whenever the player shows a URL to a 'user'-role
\* caller, the playback id in it is that of a ready match of the caller's
\* current team; and logout resets the selection.
C18_PlayerShowsOwnTeam ==
  \A s \in Sessions : (LoggedInAs(s, "user") /\ PlayerShows(s) # None) =>
    \E m \in MatchIds :
      /\ matches[m].status = "ready"
      /\ matches[m].team_id = users[session[s].user_id].team_id
      /\ PlayerShows(s)[2] = matches[m].mux_playback_id

C18_LogoutResets ==
  [][\A s \in Sessions : Logout(s) => session'[s].active_video = None]_vars

C18_SelectionFollowsUser == []C18_PlayerShowsOwnTeam /\ C18_LogoutResets

\* C19 (as claimed): with concurrent ingestions naming the same new team
\* there is one Team of that name, no ingestion fails after its transfer
\* succeeded, and every ingestion whose transfer succeeded and whose handler
\* has ended has its Match, attached to that Team.
C19_AtomicGetOrCreate ==
  /\ \A t1, t2 \in 1..Len(teams) : teams[t1] = teams[t2] => t1 = t2
  /\ \A s \in Sessions : out[s] # {"IntegrityError"}
  /\ \A u \in 1..Len(mux) :
       (mux[u].received /\ \A s \in Sessions : pc[s] = "idle" \/ ing[s].up # u) =>
         \E m \in MatchIds :
           /\ matches[m].mux_asset_id = UploadId(u)
           /\ matches[m].team_id \in 1..Len(teams)
           /\ teams[matches[m].team_id] \in TeamNames

\* C20: in every committed state every Event references an existing Match
\* and every Match an existing Team, and a step that makes an Event visible
\* makes its Match visible (or finds it visible), a step that makes a Match
\* visible likewise its Team: each ingestion's rows appear in one commit.
C20_References ==
  /\ \A e \in 1..Len(events) : events[e].match_id \in MatchIds
  /\ \A m \in MatchIds : matches[m].team_id \in 1..Len(teams)

C20_OneCommit ==
  [][/\ \A e \in (Len(events) + 1)..Len(events') :
          events'[e].match_id \in (Len(matches) + 1)..Len(matches')
     /\ Len(matches') \in {Len(matches), Len(matches) + 1}
     /\ Len(teams') > Len(teams) =>
          /\ Len(teams') = Len(teams) + 1 /\ Len(matches') = Len(matches) + 1
          /\ matches'[Len(matches')].team_id = Len(teams')
     /\ SubSeq(teams', 1, Len(teams)) = teams
     /\ SubSeq(matches', 1, Len(matches)) = matches
     /\ SubSeq(events', 1, Len(events)) = events]_vars

C20_ReferentialIntegrity == []C20_References /\ C20_OneCommit

\* two handlers ran at the same time; the first committed the new team with
\* its match and events, the second found that team and committed its own
C20_Witness ==
  /\ teams = <<"NYCFC">> /\ Len(matches) = 2 /\ Len(events) = 4
  /\ matches[1].team_id = 1 /\ matches[2].team_id = 1
  /\ events[2].match_id = 1 /\ events[3].match_id = 2
  /\ out["s1"] = {"Success! Please wait 1-2 mins, then Sync."}
  /\ out["s2"] = {"Success! Please wait 1-2 mins, then Sync."}

====
